---- MODULE Spec2Model ----
(***************************************************************************)
(* split-buffer: length-prefixed concatenation of byte strings.            *)
(*                                                                         *)
(* Config::build (src/src/lib.rs:40-115) writes a 2-byte header and, for   *)
(* every part, its length in the configured width and byte order followed  *)
(* by the part's bytes.  BufferIterator::next (lib.rs:147-244) walks the   *)
(* payload with a cursor and yields the parts again.                       *)
(*                                                                         *)
(* Sizes reach 2^32 and beyond (a part too long for a u32 prefix), more    *)
(* than a 32-bit integer holds, so a usize value is kept as its base-256   *)
(* digits, least significant first, without leading zero digits,           *)
(* and a byte string (Vec<u8>, &[u8]) as a sequence of runs [n, b]: n      *)
(* copies of byte b, adjacent runs holding different bytes.                *)
(***************************************************************************)
EXTENDS Integers, Sequences, FiniteSets, TLC

\* ------------------------------------------------------------------ bounds

\* Largest number of short parts handed to build.
MaxParts == 3

\* Largest number of parts handed to build when they may be long.
MaxLongParts == 2

\* ------------------------------------------------------- usize arithmetic

Byte == 0..255

\* The usize value of a small integer literal.
RECURSIVE Num(_)
Num(i) == IF i = 0 THEN << >> ELSE << i % 256 >> \o Num(i \div 256)

\* The small integer a usize value stands for (used on values below 2^16).
RECURSIVE Small(_)
Small(d) == IF d = << >> THEN 0 ELSE Head(d) + 256 * Small(Tail(d))

RECURSIVE AddCarry(_, _, _)
AddCarry(a, b, c) ==
    IF a = << >> /\ b = << >>
    THEN IF c = 0 THEN << >> ELSE << c >>
    ELSE LET x == IF a = << >> THEN 0 ELSE Head(a)
             y == IF b = << >> THEN 0 ELSE Head(b)
             s == x + y + c
             ta == IF a = << >> THEN << >> ELSE Tail(a)
             tb == IF b = << >> THEN << >> ELSE Tail(b)
         IN  << s % 256 >> \o AddCarry(ta, tb, s \div 256)

\* a + b, as a mathematical sum (the caller checks the usize range).
Add(a, b) == AddCarry(a, b, 0)

RECURSIVE Strip(_)
Strip(d) ==
    IF d = << >> THEN << >>
    ELSE IF d[Len(d)] = 0 THEN Strip(SubSeq(d, 1, Len(d) - 1)) ELSE d

RECURSIVE LessFrom(_, _, _)
LessFrom(a, b, i) ==
    IF i = 0 THEN FALSE
    ELSE IF a[i] # b[i] THEN a[i] < b[i] ELSE LessFrom(a, b, i - 1)

\* a < b
Less(a, b) ==
    IF Len(a) # Len(b) THEN Len(a) < Len(b) ELSE LessFrom(a, b, Len(a))

\* a <= b
Leq(a, b) == ~Less(b, a)

RECURSIVE SubBorrow(_, _, _)
SubBorrow(a, b, c) ==
    IF a = << >> THEN << >>
    ELSE LET y == IF b = << >> THEN 0 ELSE Head(b)
             tb == IF b = << >> THEN << >> ELSE Tail(b)
             s == Head(a) - y - c
         IN  IF s < 0
             THEN << s + 256 >> \o SubBorrow(Tail(a), tb, 1)
             ELSE << s >> \o SubBorrow(Tail(a), tb, 0)

\* a - b for b <= a
Sub(a, b) == Strip(SubBorrow(a, b, 0))

Max(a, b) == IF Less(a, b) THEN b ELSE a

\* ------------------------------------------------------------ byte strings

Empty == << >>

\* The byte string of n copies of byte b.
Fill(n, b) == IF n = << >> THEN Empty ELSE << [n |-> n, b |-> b] >>

\* Vec::extend_from_slice / concatenation of two byte strings.
Concat(s, t) ==
    IF s = << >> THEN t
    ELSE IF t = << >> THEN s
    ELSE IF s[Len(s)].b = t[1].b
         THEN SubSeq(s, 1, Len(s) - 1)
              \o << [n |-> Add(s[Len(s)].n, t[1].n), b |-> t[1].b] >>
              \o Tail(t)
         ELSE s \o t

\* The byte string of an explicit sequence of bytes.
RECURSIVE Bytes(_)
Bytes(q) ==
    IF q = << >> THEN Empty
    ELSE Concat(Fill(Num(1), Head(q)), Bytes(Tail(q)))

\* [u8]::len
RECURSIVE ByteLen(_)
ByteLen(s) == IF s = << >> THEN << >> ELSE Add(s[1].n, ByteLen(Tail(s)))

\* s[k..]
RECURSIVE Drop(_, _)
Drop(s, k) ==
    IF k = << >> \/ s = << >> THEN s
    ELSE IF Leq(s[1].n, k) THEN Drop(Tail(s), Sub(k, s[1].n))
         ELSE << [n |-> Sub(s[1].n, k), b |-> s[1].b] >> \o Tail(s)

\* s[..k]
RECURSIVE Take(_, _)
Take(s, k) ==
    IF k = << >> \/ s = << >> THEN Empty
    ELSE IF Leq(s[1].n, k)
         THEN << s[1] >> \o Take(Tail(s), Sub(k, s[1].n))
         ELSE << [n |-> k, b |-> s[1].b] >>

\* s[from..to] for from <= to <= len
Slice(s, from, to) == Take(Drop(s, from), Sub(to, from))

\* The explicit bytes of a short byte string (a length prefix).
RECURSIVE Explode(_)
Explode(s) ==
    IF s = << >> THEN << >>
    ELSE [i \in 1..Small(s[1].n) |-> s[1].b] \o Explode(Tail(s))

\* ------------------------------------------------------------------- types

\* enum Endianness, #[repr(u8)]
Endianness == {"Big", "Little", "Native"}

\* enum MaxLen, #[repr(u8)]
MaxLen == {"U8", "U16", "U32", "Usize"}

\* `endianness as u8`: the discriminant of a variant.
EndiannessTag(e) == CASE e = "Big" -> 0 [] e = "Little" -> 1 [] e = "Native" -> 2

\* `max_len as u8`
MaxLenTag(m) == CASE m = "U8" -> 0 [] m = "U16" -> 1 [] m = "U32" -> 2 [] m = "Usize" -> 3

None == [some |-> FALSE]
Some(v) == [some |-> TRUE, v |-> v]

\* The machines the crate is compiled for: byte order and size_of::<usize>().
Hosts == [endian : {"Big", "Little"}, ptr : {4, 8}]

\* A part is a &[u8] of the host: its length is at most isize::MAX.
FitsIsize(n, host) ==
    \/ Len(n) < host.ptr
    \/ Len(n) = host.ptr /\ n[Len(n)] < 128

\* A byte 1 followed by n - 1 bytes 171.
Long(n) == Concat(Bytes(<< 1 >>), Fill(Sub(n, Num(1)), 171))

\* Parts at both sides of the largest length each prefix width can hold.
BoundaryParts ==
    { Empty,
      Long(Num(255)), Long(Num(256)), Long(Num(65535)), Long(Num(65536)),
      Long(<< 255, 255, 255, 255 >>), Long(<< 0, 0, 0, 0, 1 >>) }

\* Short parts, an empty one among them.
SmallParts == { Empty, Bytes(<< 1, 3 >>), Bytes(<< 2, 3, 4 >>) }

\* The parts two iterators are run over.
SharedParts == { Empty, Bytes(<< 1, 3 >>) }

\* The parts of buffers that are cut short; one has a prefix above 255.
TruncParts == { Empty, Bytes(<< 2, 3, 4 >>), Long(Num(256)) }

SeqsUpTo(S, n) == UNION { [1..k -> S] : k \in 0..n }

\* The arguments of Config::with_size_hint that are tried.
HintValues == { Num(0), Num(1000) }

NoIter == [live |-> FALSE]

VARIABLES
    host,       \* the machine: byte order and pointer width
    parts,      \* the argument of build: a sequence of byte strings
    handles,    \* the iterators the caller keeps
    cfg,        \* the Config value
    pc,         \* "config", "build" (inside the loop of build), "ok", "err"
    idx,        \* build: index of the next part of the loop
    buffer,     \* build's Vec<u8>, then Buffer.0: [data, cap]
    its,        \* the BufferIterators, by handle
    truncated   \* whether trailing bytes of the buffer were cut off

vars == << host, parts, handles, cfg, pc, idx, buffer, its, truncated >>

\* ------------------------------------------------------------- conversions

\* std::mem::size_of of the prefix type
size_of(m, h) ==
    CASE m = "U8" -> 1 [] m = "U16" -> 2 [] m = "U32" -> 4 [] m = "Usize" -> h.ptr

\* A cast in place of the conversion: `len as uN` never fails.
try_from_cast(len, m, h) == TRUE

\* uN::try_from(len).is_ok(): len fits in size_of bytes.
try_from_ok(len, m, h) == Len(len) <= size_of(m, h)

Reverse(q) == [i \in 1..Len(q) |-> q[Len(q) + 1 - i]]

to_le_bytes(v, w) == [i \in 1..w |-> IF i <= Len(v) THEN v[i] ELSE 0]

to_be_bytes(v, w) == Reverse(to_le_bytes(v, w))

to_ne_bytes(v, w, h) ==
    IF h.endian = "Little" THEN to_le_bytes(v, w) ELSE to_be_bytes(v, w)

\* The Big and Little arms exchanged.
prefix_bytes_swapped(len, e, m, h) ==
    CASE e = "Big" -> to_le_bytes(len, size_of(m, h))
      [] e = "Little" -> to_be_bytes(len, size_of(m, h))
      [] e = "Native" -> to_ne_bytes(len, size_of(m, h), h)

\* The prefix bytes build writes for a length (the twelve arms of the match).
prefix_bytes(len, e, m, h) ==
    CASE e = "Big" -> to_be_bytes(len, size_of(m, h))
      [] e = "Little" -> to_le_bytes(len, size_of(m, h))
      [] e = "Native" -> to_ne_bytes(len, size_of(m, h), h)

\* `as usize`: the low size_of::<usize>() bytes of the value.
as_usize(v, h) == Strip(SubSeq(v, 1, IF Len(v) < h.ptr THEN Len(v) ELSE h.ptr))

from_le_bytes(q) == Strip(q)

from_be_bytes(q) == Strip(Reverse(q))

from_ne_bytes(q, h) ==
    IF h.endian = "Little" THEN from_le_bytes(q) ELSE from_be_bytes(q)

\* The Native arms reading the prefix as big-endian on every host.
prefix_len_be(q, e, h) ==
    as_usize(CASE e = "Big" -> from_be_bytes(q)
               [] e = "Little" -> from_le_bytes(q)
               [] e = "Native" -> from_be_bytes(q), h)

\* The length next reads from a prefix (the twelve arms of the match).
prefix_len(q, e, h) ==
    as_usize(CASE e = "Big" -> from_be_bytes(q)
               [] e = "Little" -> from_le_bytes(q)
               [] e = "Native" -> from_ne_bytes(q, h), h)

\* Whether a sum is a usize of the host.
FitsUsize(n, h) == Len(n) <= h.ptr

\* ----------------------------------------------------------------- Vec<u8>

\* vec![0; n] in place of Vec::with_capacity(n).
with_capacity_zeroed(n) == [data |-> Fill(n, 0), cap |-> n]

\* Vec::with_capacity
with_capacity(n) == [data |-> Empty, cap |-> n]

\* Vec::extend_from_slice and Vec::push: append, growing the storage when
\* it is full (twice the capacity, at least what is needed, at least 8).
extend_from_slice(v, s) ==
    LET need == Add(ByteLen(v.data), ByteLen(s))
    IN  [data |-> Concat(v.data, s),
         cap |-> IF Leq(need, v.cap) THEN v.cap
                 ELSE Max(Max(Add(v.cap, v.cap), need), Num(8))]

\* Vec::shrink_to_fit
shrink_to_fit(v) == [data |-> v.data, cap |-> ByteLen(v.data)]

\* ------------------------------------------------------------------ Config

\* Config::default
DefaultConfig == [max_len |-> "Usize", endianness |-> "Big", size_hint |-> None]

with_max_len(m) ==
    /\ pc = "config"
    /\ cfg' = [cfg EXCEPT !.max_len = m]
    /\ UNCHANGED << host, parts, handles, pc, idx, buffer, its, truncated >>

with_endianness(e) ==
    /\ pc = "config"
    /\ cfg' = [cfg EXCEPT !.endianness = e]
    /\ UNCHANGED << host, parts, handles, pc, idx, buffer, its, truncated >>

with_size_hint(n) ==
    /\ pc = "config"
    /\ cfg' = [cfg EXCEPT !.size_hint = Some(n)]
    /\ UNCHANGED << host, parts, handles, pc, idx, buffer, its, truncated >>

RECURSIVE bytes_count(_)
bytes_count(ps) ==
    IF ps = << >> THEN << >> ELSE Add(ByteLen(Head(ps)), bytes_count(Tail(ps)))

\* The capacity build asks for when no hint was given.
default_size_hint(c, ps, h) ==
    Add(Add(Num(Len(ps) * size_of(c.max_len, h)), bytes_count(ps)), Num(2))

\* build up to the loop: the capacity, the allocation, the two header bytes.
\* build takes the Config by value and reads its size_hint here and nowhere
\* else, so the hint is not kept after this step.
build_begin ==
    /\ pc = "config"
    /\ LET size_hint == IF cfg.size_hint.some THEN cfg.size_hint.v
                        ELSE default_size_hint(cfg, parts, host)
           b0 == with_capacity(size_hint)
           b1 == extend_from_slice(b0, Bytes(<< EndiannessTag(cfg.endianness) >>))
           b2 == extend_from_slice(b1, Bytes(<< MaxLenTag(cfg.max_len) >>))
       IN  buffer' = b2
    /\ cfg' = [cfg EXCEPT !.size_hint = None]
    /\ idx' = 1
    /\ pc' = "build"
    /\ UNCHANGED << host, parts, handles, its, truncated >>

\* A loop that writes nothing for an empty part.
write_part_skip_empty(b, part, c, h) ==
    LET len == ByteLen(part)
    IN  IF ~try_from_ok(len, c.max_len, h)
        THEN [err |-> TRUE, buffer |-> b]
        ELSE IF part = Empty THEN [err |-> FALSE, buffer |-> b]
        ELSE [err |-> FALSE,
              buffer |-> extend_from_slice(
                  extend_from_slice(b,
                      Bytes(prefix_bytes(len, c.endianness, c.max_len, h))),
                  part)]

\* What one round of the loop leaves: the buffer, and whether `?` returned.
write_part(b, part, c, h) ==
    LET len == ByteLen(part)
    IN  IF ~try_from_ok(len, c.max_len, h)
        THEN [err |-> TRUE, buffer |-> b]
        ELSE [err |-> FALSE,
              buffer |-> extend_from_slice(
                  extend_from_slice(b,
                      Bytes(prefix_bytes(len, c.endianness, c.max_len, h))),
                  part)]

\* One round of the loop of build.
build_part ==
    /\ pc = "build"
    /\ idx <= Len(parts)
    /\ LET r == write_part(buffer, parts[idx], cfg, host)
       IN  /\ buffer' = r.buffer
           /\ pc' = IF r.err THEN "err" ELSE "build"
           /\ idx' = IF r.err THEN idx ELSE idx + 1
    /\ UNCHANGED << host, parts, handles, cfg, its, truncated >>

\* The end of build: shrink, wrap in Buffer, return Ok.
build_end ==
    /\ pc = "build"
    /\ idx > Len(parts)
    /\ buffer' = shrink_to_fit(buffer)
    /\ pc' = "ok"
    /\ UNCHANGED << host, parts, handles, cfg, idx, its, truncated >>

\* ---------------------------------------------------------- BufferIterator

\* The byte at index i (from 0) of a byte string at least i + 1 long.
ByteAt(s, i) == Explode(Slice(s, Num(i), Num(i + 1)))[1]

\* transmute::<u8, Endianness>: the variant with that discriminant; for any
\* other byte the behaviour is undefined and any variant may come out.
transmute_endianness(t) ==
    IF \E e \in Endianness : EndiannessTag(e) = t
    THEN { e \in Endianness : EndiannessTag(e) = t }
    ELSE Endianness

\* transmute::<u8, MaxLen>
transmute_max_len(t) ==
    IF \E m \in MaxLen : MaxLenTag(m) = t
    THEN { m \in MaxLen : MaxLenTag(m) = t }
    ELSE MaxLen

\* The iterator borrowing the whole buffer, header included.
Payload_with_header(b) == b.data

\* &self.0[2..]: the bytes an iterator borrows.
Payload(b) == Drop(b.data, Num(2))

\* <&Buffer as IntoIterator>::into_iter.  yielded and last record what the
\* caller got from the iterator: the items, and the outcome of the last call.
into_iter(i) ==
    /\ pc = "ok"
    /\ i \in handles
    /\ Leq(Num(2), ByteLen(buffer.data))
    /\ \E e \in transmute_endianness(ByteAt(buffer.data, 0)),
          m \in transmute_max_len(ByteAt(buffer.data, 1)) :
          its' = [its EXCEPT ![i] =
                    [live |-> TRUE, offset |-> Num(0), endianness |-> e,
                     max_len |-> m, yielded |-> << >>, last |-> "New"]]
    /\ UNCHANGED << host, parts, handles, cfg, pc, idx, buffer, truncated >>

\* a + b in usize: the sum, or on overflow a panic (overflow checks on) or
\* the wrapped sum (overflow checks off).
usize_add(a, b, h) ==
    LET s == Add(a, b)
    IN  IF FitsUsize(s, h) THEN { [panic |-> FALSE, v |-> s] }
        ELSE { [panic |-> TRUE, v |-> s],
               [panic |-> FALSE, v |-> Strip(SubSeq(s, 1, h.ptr))] }

\* An index that is not checked against the length of the slice.
in_range_unchecked(buf, from, to) == TRUE

\* The bounds check of the slice index buf[from..to].
in_range(buf, from, to) == Leq(from, to) /\ Leq(to, ByteLen(buf))

\* The slice next returns: &self.buffer[bytes_start..offset].
item_slice(buf, bytes_start, offset) == Slice(buf, bytes_start, offset)

\* The cursor set to the length read, bytes_start left out.
next_offset_len_only(bytes_start, len, h) == usize_add(Num(0), len, h)

\* The cursor after a part: self.offset = bytes_start + len.
next_offset(bytes_start, len, h) == usize_add(bytes_start, len, h)

\* The outcomes of one call of next on iterator `it` over the bytes `buf`:
\* the iterator afterwards and what the call returned ("None", "Some" with
\* the item, or "Panic" when an index is out of range).
next_outcomes(it, buf, h) ==
    LET blen == ByteLen(buf)
        Panic(o) == [it |-> [it EXCEPT !.offset = o, !.last = "Panic"],
                     out |-> "Panic"]
    IN  IF ~in_range(buf, it.offset, blen) THEN { Panic(it.offset) }
        ELSE IF it.offset = blen
        THEN { [it |-> [it EXCEPT !.last = "None"], out |-> "None"] }
        ELSE UNION {
            IF bs.panic \/ ~in_range(buf, it.offset, bs.v) THEN { Panic(it.offset) }
            ELSE LET q == Explode(Slice(buf, it.offset, bs.v))
                     len == prefix_len(q, it.endianness, h)
                 IN  { IF off.panic THEN Panic(it.offset)
                       ELSE IF ~in_range(buf, bs.v, off.v) THEN Panic(off.v)
                       ELSE [it |-> [it EXCEPT
                                !.offset = off.v,
                                !.yielded = Append(@, item_slice(buf, bs.v, off.v)),
                                !.last = "Some"],
                             out |-> "Some"]
                       : off \in next_offset(bs.v, len, h) }
            : bs \in usize_add(it.offset, Num(size_of(it.max_len, h)), h) }

\* A cursor kept in one place for all iterators of the buffer.
next_shared_cursor(i) ==
    /\ pc = "ok"
    /\ i \in handles
    /\ its[i].live
    /\ \E r \in next_outcomes(its[i], Payload(buffer), host) :
          its' = [j \in DOMAIN its |->
                    IF j = i THEN r.it
                    ELSE IF its[j].live THEN [its[j] EXCEPT !.offset = r.it.offset]
                    ELSE its[j]]
    /\ UNCHANGED << host, parts, handles, cfg, pc, idx, buffer, truncated >>

\* <BufferIterator as Iterator>::next
next(i) ==
    /\ pc = "ok"
    /\ i \in handles
    /\ its[i].live
    /\ \E r \in next_outcomes(its[i], Payload(buffer), host) :
          its' = [its EXCEPT ![i] = r.it]
    /\ UNCHANGED << host, parts, handles, cfg, pc, idx, buffer, truncated >>

\* ------------------------------------------------------- truncated buffers

\* The numbers of trailing bytes cut off: fewer than the last part holds.
Cuts(ps) ==
    IF ps = << >> THEN { }
    ELSE LET L == ByteLen(ps[Len(ps)])
         IN  { k \in { Num(1), Num(2), Sub(L, Num(1)) } :
                 Less(<< >>, k) /\ Less(k, L) }

\* A built buffer loses its last k bytes; no iterator borrows it meanwhile.
truncate(k) ==
    /\ pc = "ok"
    /\ ~truncated
    /\ k \in Cuts(parts)
    /\ buffer' = [buffer EXCEPT
                    !.data = Take(@, Sub(ByteLen(buffer.data), k))]
    /\ its' = [i \in DOMAIN its |-> NoIter]
    /\ truncated' = TRUE
    /\ UNCHANGED << host, parts, handles, cfg, pc, idx >>

\* ---------------------------------------------------------- specifications

InitWith(pool, n, hs) ==
    /\ host \in Hosts
    /\ parts \in { ps \in SeqsUpTo(pool, n) :
                     \A j \in 1..Len(ps) : FitsIsize(ByteLen(ps[j]), host) }
    /\ handles = hs
    /\ cfg = DefaultConfig
    /\ pc = "config"
    /\ idx = 0
    /\ buffer = with_capacity(Num(0))
    /\ its = [i \in hs |-> NoIter]
    /\ truncated = FALSE

Init == InitWith(BoundaryParts, MaxLongParts, {1})

Next ==
    \/ \E m \in MaxLen : with_max_len(m)
    \/ \E e \in Endianness : with_endianness(e)
    \/ \E n \in HintValues : with_size_hint(n)
    \/ build_begin
    \/ build_part
    \/ build_end
    \/ \E i \in handles : into_iter(i)
    \/ \E i \in handles : next(i)

\* One buffer, one iterator, parts around every length limit.
Spec == Init /\ [][Next]_vars

InitSmall == InitWith(SmallParts, MaxParts, {1})

\* One buffer, one iterator, more and shorter parts.
SpecSmall == InitSmall /\ [][Next]_vars

InitShared == InitWith(SharedParts, MaxParts, {1, 2})

\* One buffer read by two iterators.
SpecShared == InitShared /\ [][Next]_vars

InitTrunc == InitWith(TruncParts, MaxLongParts, {1})

NextTrunc == Next \/ \E k \in Cuts(parts) : truncate(k)

\* Buffers whose tail was cut off after build.
SpecTrunc == InitTrunc /\ [][NextTrunc]_vars

\* ------------------------------------------------------ what is claimed

\* The largest length a prefix of each width holds.
MaxValue(m, h) ==
    CASE m = "U8" -> Num(255)
      [] m = "U16" -> Num(65535)
      [] m = "U32" -> << 255, 255, 255, 255 >>
      [] m = "Usize" -> [i \in 1..h.ptr |-> 255]

FitsWidth(part, m, h) == Leq(ByteLen(part), MaxValue(m, h))

\* The wire layout of section 6: widths, tags, prefixes.
WireWidth(m, h) ==
    CASE m = "U8" -> 1 [] m = "U16" -> 2 [] m = "U32" -> 4 [] m = "Usize" -> h.ptr

WireOrderTag(e) == CASE e = "Big" -> 0 [] e = "Little" -> 1 [] e = "Native" -> 2

WireWidthTag(m) == CASE m = "U8" -> 0 [] m = "U16" -> 1 [] m = "U32" -> 2 [] m = "Usize" -> 3

\* The base-256 digit of n with weight 256^k.
Digit(n, k) == IF k < Len(n) THEN n[k + 1] ELSE 0

WirePrefix(len, e, w, h) ==
    LET big == e = "Big" \/ (e = "Native" /\ h.endian = "Big")
    IN  [i \in 1..w |-> IF big THEN Digit(len, w - i) ELSE Digit(len, i - 1)]

RECURSIVE WireParts(_, _, _, _)
WireParts(ps, e, m, h) ==
    IF ps = << >> THEN Empty
    ELSE Concat(Concat(Bytes(WirePrefix(ByteLen(Head(ps)), e, WireWidth(m, h), h)),
                       Head(ps)),
                WireParts(Tail(ps), e, m, h))

Wire(ps, e, m, h) ==
    Concat(Bytes(<< WireOrderTag(e), WireWidthTag(m) >>), WireParts(ps, e, m, h))

\* The payload offset just past the first k parts.
RECURSIVE Boundary(_, _, _)
Boundary(ps, k, w) ==
    IF k = 0 THEN Num(0)
    ELSE Add(Boundary(ps, k - 1, w), Add(Num(w), ByteLen(ps[k])))

Live == { i \in handles : its[i].live }

\* What a further call of next on iterator i can return.
Outs(i) == { r.out : r \in next_outcomes(its[i], Payload(buffer), host) }

\* C1. Round trip: when every part fits the configured width build does
\* not fail, and an iterator over the built buffer yields the parts in
\* order, byte for byte: what it has yielded is always the leading parts,
\* a call before the last part was yielded returns the next one, and the
\* sequence ends exactly when all parts were yielded.
C1_RoundTrip ==
    /\ pc = "err" => \E j \in 1..Len(parts) : ~FitsWidth(parts[j], cfg.max_len, host)
    /\ \A i \in Live :
        /\ Len(its[i].yielded) <= Len(parts)
        /\ its[i].yielded = SubSeq(parts, 1, Len(its[i].yielded))
        /\ its[i].last # "Panic"
        /\ its[i].last = "None" => its[i].yielded = parts
        /\ Outs(i) = IF Len(its[i].yielded) < Len(parts) THEN {"Some"} ELSE {"None"}

\* A part of 2^32 - 1 bytes behind a 4-byte native-order prefix came back.
C1_Witness ==
    /\ pc = "ok"
    /\ cfg.max_len = "U32"
    /\ cfg.endianness = "Native"
    /\ Len(parts) = 2
    /\ ByteLen(parts[2]) = << 255, 255, 255, 255 >>
    /\ its[1].live
    /\ its[1].last = "None"
    /\ its[1].yielded = parts

\* C2. Length limit: build returns an error exactly when a part is longer
\* than the configured width can state (255, 65535, 2^32 - 1, or any usize);
\* the error is raised at the first such part, with nothing of that part
\* in the buffer; 256 bytes fail with U8 and pass with U16.
C2_LengthLimit ==
    /\ pc = "err" =>
        /\ idx \in 1..Len(parts)
        /\ ~FitsWidth(parts[idx], cfg.max_len, host)
        /\ \A j \in 1..(idx - 1) : FitsWidth(parts[j], cfg.max_len, host)
        /\ buffer.data = Wire(SubSeq(parts, 1, idx - 1), cfg.endianness,
                              cfg.max_len, host)
    /\ pc = "build" => \A j \in 1..(idx - 1) : FitsWidth(parts[j], cfg.max_len, host)
    /\ pc = "ok" => \A j \in 1..Len(parts) : FitsWidth(parts[j], cfg.max_len, host)
    /\ (pc \in {"ok", "err"} /\ parts = << Long(Num(256)) >>) =>
        /\ cfg.max_len = "U8" => pc = "err"
        /\ cfg.max_len = "U16" => pc = "ok"

\* With U8, a part of 255 bytes was written and the next, of 256, refused.
C2_Witness ==
    /\ pc = "err"
    /\ cfg.max_len = "U8"
    /\ idx = 2
    /\ ByteLen(parts[1]) = Num(255)
    /\ ByteLen(parts[2]) = Num(256)

\* C3. Truncation: over a buffer that lost fewer trailing bytes than its
\* last part holds, an iterator yields the earlier parts whole and then
\* fails (the slice index is out of range and next panics): the last part
\* is never yielded, short or whole, the sequence never ends with None, and
\* every call after the failure fails again.
C3_Truncation ==
    truncated =>
        \A i \in Live :
            LET y == its[i].yielded
            IN  /\ Len(y) < Len(parts)
                /\ y = SubSeq(parts, 1, Len(y))
                /\ its[i].last # "None"
                /\ its[i].last = "Panic" => Len(y) = Len(parts) - 1
                /\ (Len(y) = Len(parts) - 1 \/ its[i].last = "Panic")
                        => Outs(i) = {"Panic"}
                /\ Len(y) < Len(parts) - 1 => Outs(i) = {"Some"}

\* The first part came back, the 256-byte part cut short made next fail.
C3_Witness ==
    /\ truncated
    /\ cfg.max_len = "U16"
    /\ Len(parts) = 2
    /\ ByteLen(parts[2]) = Num(256)
    /\ its[1].live
    /\ its[1].last = "Panic"
    /\ Len(its[1].yielded) = 1

\* C4. Native byte order is resolved when the buffer is built: the order
\* tag in the header of a buffer built with Endianness::Native is the tag
\* of Big or of Little, and an iterator reads prefixes by that tag.
C4_NativeResolved ==
    (pc \in {"build", "ok"} /\ cfg.endianness = "Native") =>
        /\ ByteAt(buffer.data, 0) \in { WireOrderTag("Big"), WireOrderTag("Little") }
        /\ \A i \in Live : its[i].endianness \in {"Big", "Little"}

\* C5. Empty input: build of no parts succeeds with the two header bytes
\* and nothing else, and an iterator over it returns None at once.
C5_EmptyInput ==
    parts = << >> =>
        /\ pc # "err"
        /\ pc = "ok" =>
            /\ ByteLen(buffer.data) = Num(2)
            /\ Explode(buffer.data)
                 = << WireOrderTag(cfg.endianness), WireWidthTag(cfg.max_len) >>
            /\ \A i \in Live :
                /\ its[i].yielded = << >>
                /\ its[i].last \in {"New", "None"}
                /\ Outs(i) = {"None"}

\* next was called on the iterator of an empty build and returned None.
C5_Witness ==
    /\ parts = << >>
    /\ pc = "ok"
    /\ its[1].live
    /\ its[1].last = "None"

\* C6. Empty parts: an iterator yields an empty slice at exactly the
\* positions of the empty parts, an empty part that is next is yielded
\* and not skipped, and at the end as many items were yielded as there
\* are parts.
C6_EmptyPart ==
    \A i \in Live :
        LET y == its[i].yielded
        IN  /\ Len(y) <= Len(parts)
            /\ \A j \in 1..Len(y) : (y[j] = Empty) <=> (parts[j] = Empty)
            /\ its[i].last = "None" => Len(y) = Len(parts)
            /\ (Len(y) < Len(parts) /\ parts[Len(y) + 1] = Empty)
                    => Outs(i) = {"Some"}

\* Three empty parts, all three yielded, then None.
C6_Witness ==
    /\ Len(parts) = 3
    /\ \A j \in 1..3 : parts[j] = Empty
    /\ its[1].live
    /\ its[1].last = "None"
    /\ Len(its[1].yielded) = 3

\* C7. Wire layout: the buffer is the header [order tag, width tag] and
\* then, part by part in input order, the length in exactly width bytes
\* in the configured order followed by the part's bytes; [[1,3],[2,3,4]]
\* with U32 has prefixes 00 00 00 02, 00 00 00 03 in big-endian and
\* 02 00 00 00, 03 00 00 00 in little-endian.
C7_WireLayout ==
    /\ pc = "build" =>
          buffer.data = Wire(SubSeq(parts, 1, idx - 1), cfg.endianness,
                             cfg.max_len, host)
    /\ pc = "ok" =>
          buffer.data = Wire(parts, cfg.endianness, cfg.max_len, host)
    /\ (pc = "ok" /\ cfg.max_len = "U32"
            /\ parts = << Bytes(<< 1, 3 >>), Bytes(<< 2, 3, 4 >>) >>) =>
        /\ cfg.endianness = "Big" =>
              Explode(buffer.data)
                = << 0, 2, 0, 0, 0, 2, 1, 3, 0, 0, 0, 3, 2, 3, 4 >>
        /\ cfg.endianness = "Little" =>
              Explode(buffer.data)
                = << 1, 2, 2, 0, 0, 0, 1, 3, 3, 0, 0, 0, 2, 3, 4 >>

\* [[1,3],[2,3,4]] was built with U32 and Big.
C7_Witness ==
    /\ pc = "ok"
    /\ cfg.max_len = "U32"
    /\ cfg.endianness = "Big"
    /\ parts = << Bytes(<< 1, 3 >>), Bytes(<< 2, 3, 4 >>) >>

\* C8. Independent iteration: with two iterators over one buffer called
\* in any interleaving, each one's cursor and items depend on its own
\* calls alone (the cursor is just past the parts it has yielded itself,
\* a new iterator starts with nothing yielded), each goes on to yield all
\* parts, and the buffer keeps the bytes it was built with.
C8_Independent ==
    /\ pc = "ok" => buffer.data = Wire(parts, cfg.endianness, cfg.max_len, host)
    /\ \A i \in Live :
        LET y == its[i].yielded
        IN  /\ Len(y) <= Len(parts)
            /\ y = SubSeq(parts, 1, Len(y))
            /\ its[i].offset
                 = Boundary(parts, Len(y), WireWidth(its[i].max_len, host))
            /\ its[i].last = "New" => y = << >>
            /\ its[i].last = "None" => y = parts
            /\ Outs(i) = IF Len(y) < Len(parts) THEN {"Some"} ELSE {"None"}

\* Iterator 1 is exhausted while iterator 2 has yielded one part of three.
C8_Witness ==
    /\ Len(parts) = 3
    /\ its[1].live /\ its[1].last = "None" /\ its[1].yielded = parts
    /\ its[2].live /\ its[2].last = "Some" /\ Len(its[2].yielded) = 1

\* C9. Cursor: an iterator over a built buffer starts at the first byte
\* after the header, after every call its cursor is on a part boundary
\* (past exactly the parts yielded) and within the payload, it is at the
\* end once all n parts were yielded, and at the end next returns None
\* and leaves the cursor where it is.
C9_Cursor ==
    pc = "ok" =>
        /\ Payload(buffer) = WireParts(parts, cfg.endianness, cfg.max_len, host)
        /\ \A i \in Live :
            LET w == WireWidth(its[i].max_len, host)
                blen == ByteLen(Payload(buffer))
                y == its[i].yielded
            IN  /\ its[i].last = "New" => its[i].offset = Num(0)
                /\ \E k \in 0..Len(parts) : its[i].offset = Boundary(parts, k, w)
                /\ its[i].offset = Boundary(parts, Len(y), w)
                /\ Leq(its[i].offset, blen)
                /\ Len(y) = Len(parts) => its[i].offset = blen
                /\ its[i].offset = blen =>
                     \A r \in next_outcomes(its[i], Payload(buffer), host) :
                         r.out = "None" /\ r.it.offset = its[i].offset

\* Three parts were yielded, the cursor is at the end and next said None.
C9_Witness ==
    /\ pc = "ok"
    /\ Len(parts) = 3
    /\ parts[3] # Empty
    /\ its[1].live
    /\ its[1].last = "None"
    /\ its[1].offset = ByteLen(Payload(buffer))

RECURSIVE TotalLen(_)
TotalLen(ps) == IF ps = << >> THEN Num(0) ELSE Add(ByteLen(Head(ps)), TotalLen(Tail(ps)))

\* The buffer build leaves when it starts from buffer b and writes ps.
RECURSIVE Written(_, _, _, _)
Written(b, ps, c, h) ==
    IF ps = << >> THEN b
    ELSE Written(write_part(b, Head(ps), c, h).buffer, Tail(ps), c, h)

\* The bytes build produces for a configuration without a size hint.
UnhintedBytes(ps, c, h) ==
    LET b0 == with_capacity(default_size_hint(c, ps, h))
        b1 == extend_from_slice(b0, Bytes(<< EndiannessTag(c.endianness) >>))
        b2 == extend_from_slice(b1, Bytes(<< MaxLenTag(c.max_len) >>))
    IN  Written(b2, ps, c, h).data

\* C10. Exact size: once all parts are written the buffer is
\* 2 + count * width + sum of the part lengths bytes long, which is the
\* capacity build computes when no hint is given, and its bytes are those
\* of an unhinted build whatever hint was set.
C10_ExactSize ==
    (pc = "ok" \/ (pc = "build" /\ idx > Len(parts))) =>
        /\ ByteLen(buffer.data)
             = Add(Num(2 + Len(parts) * WireWidth(cfg.max_len, host)), TotalLen(parts))
        /\ ByteLen(buffer.data) = default_size_hint(cfg, parts, host)
        /\ buffer.data = UnhintedBytes(parts, cfg, host)

\* Two parts were written into storage of the 1000 bytes a hint asked for.
C10_Witness ==
    /\ pc = "build"
    /\ idx > Len(parts)
    /\ Len(parts) = 2
    /\ buffer.cap = Num(1000)
    /\ Less(ByteLen(buffer.data), Num(1000))

====
